---- MODULE Spec2Model ----
(***************************************************************************)
(* A model of basic_stopwatch<TimerBaseChrono<clock_, resolution>>         *)
(* (src/stopwatch.h), instantiated as Stopwatch (src/stopwatchmsec.h) or   *)
(* Stopwatchmicro (src/stopwatchmicro.h).                                  *)
(*                                                                         *)
(* A char const* is a sequence: nullptr is <<>>, a pointer to the string s *)
(* is <<s>>.  The sink (std::ostream&) is the sequence of the lines that   *)
(* have been written to it.  The clock is a counter of clock periods that  *)
(* never decreases; every clock_::now() in the code is one reading of it,  *)
(* and time may pass between two readings of the same call.                *)
(***************************************************************************)
EXTENDS Integers, Sequences, FiniteSets, TLC

\* ---------------------------------------------------------------- bounds
\* largest clock reading (in clock periods)
MaxNow == 4
\* largest advance of the clock between two consecutive readings
MaxStep == 1
\* number of member-function calls made on one stopwatch object
MaxCalls == 3
\* clock periods per tick of the resolution (duration_cast truncates)
TicksPerUnit == 2

\* ------------------------------------------------------- program constants
\* clock_::time_point::min(), the "not running" value of m_start
TimePointMin == -1

nullptr == <<>>
\* labels handed to the label-taking constructors
Activities == {nullptr, <<"">>, <<"Work">>}
\* event names handed to Show/Start/Stop ("start" is Start's default argument)
Events == {nullptr, <<"">>, <<"start">>}

VARIABLES m_activity, m_lap, m_start, m_log, now, alive, built, call, ncalls, interval

vars == <<m_activity, m_lap, m_start, m_log, now, alive, built, call, ncalls, interval>>

\* the object: the members of basic_stopwatch and of its base TimerBaseChrono
Self == [m_activity |-> m_activity, m_lap |-> m_lap, m_start |-> m_start, m_log |-> m_log]

\* the test `p && p[0]` on a char const*
NonEmpty(p) == p # nullptr /\ p[1] # ""

\* ------------------------------------------------------- TimerBaseChrono
\* a slip: the mark is reset to the epoch (time_point()) instead of min()
TimerBaseChrono_Clear_Epoch(s) == [s EXCEPT !.m_start = 0]

TimerBaseChrono_Clear(s) == [s EXCEPT !.m_start = TimePointMin]

TimerBaseChrono_IsStarted(s) == s.m_start # TimePointMin

\* t is the reading clock_::now() returns
TimerBaseChrono_Start(s, t) == [s EXCEPT !.m_start = t]

\* a slip: the remainder is taken instead of the quotient
DurationCast_Mod(d) == d % TicksPerUnit

\* a slip: the duration is returned in clock periods, never converted
DurationCast_NoCast(d) == d

\* std::chrono::duration_cast<resolution>: whole ticks, truncating
DurationCast(d) == d \div TicksPerUnit

GetMs(s, t) == IF TimerBaseChrono_IsStarted(s) THEN DurationCast(t - s.m_start) ELSE 0

\* ------------------------------------------------------- basic_stopwatch
IsStarted(s) == TimerBaseChrono_IsStarted(s)

LapGet(s) == s.m_lap

\* m_log << ... << std::endl << std::flush : one more line in the sink
Write(s, line) == [s EXCEPT !.m_log = Append(@, line)]

ShowLine(s, event_name) == s.m_activity[1] \o ": " \o event_name[1] \o " at " \o ToString(s.m_lap) \o "mS"

NotStartedLine(s) == s.m_activity[1] \o ": not started"

StartLine(s, event_name) == s.m_activity[1] \o ": " \o event_name[1]

StopLine(s, event_name) == s.m_activity[1] \o ": " \o event_name[1] \o " " \o ToString(s.m_lap) \o "mS"

\* Show, Start and Stop give the object after the call, and ShowRet, StartRet
\* and StopRet the value the call returns
\* a slip: the lap is measured only when a line is written
Show_MeasuresWhenPrinting(s, event_name, t) ==
    IF IsStarted(s)
    THEN IF NonEmpty(event_name) /\ s.m_activity # nullptr
         THEN LET s1 == [s EXCEPT !.m_lap = GetMs(s, t)]
              IN Write(s1, ShowLine(s1, event_name))
         ELSE s
    ELSE IF s.m_activity # nullptr THEN Write(s, NotStartedLine(s)) ELSE s

\* a slip: Show sets the mark again after reading the elapsed time
Show_Restarts(s, event_name, t) ==
    IF IsStarted(s)
    THEN LET s1 == [s EXCEPT !.m_lap = GetMs(s, t), !.m_start = t]
         IN IF NonEmpty(event_name) /\ s1.m_activity # nullptr
            THEN Write(s1, ShowLine(s1, event_name))
            ELSE s1
    ELSE IF s.m_activity # nullptr THEN Write(s, NotStartedLine(s)) ELSE s

\* a slip: the "not started" line is written only for a non-empty event name
Show_StoppedTestsEvent(s, event_name, t) ==
    IF IsStarted(s)
    THEN LET s1 == [s EXCEPT !.m_lap = GetMs(s, t)]
         IN IF NonEmpty(event_name) /\ s1.m_activity # nullptr
            THEN Write(s1, ShowLine(s1, event_name))
            ELSE s1
    ELSE IF NonEmpty(event_name) /\ s.m_activity # nullptr
         THEN Write(s, NotStartedLine(s))
         ELSE s

Show(s, event_name, t) ==
    IF IsStarted(s)
    THEN LET s1 == [s EXCEPT !.m_lap = GetMs(s, t)]
         IN IF NonEmpty(event_name) /\ s1.m_activity # nullptr
            THEN Write(s1, ShowLine(s1, event_name))
            ELSE s1
    ELSE IF s.m_activity # nullptr THEN Write(s, NotStartedLine(s)) ELSE s

ShowRet(s, event_name, t) == Show(s, event_name, t).m_lap

\* a slip: the mark is cleared before the elapsed time is read
Stop_ClearFirst(s, event_name, t) ==
    LET s0 == TimerBaseChrono_Clear(s)
    IN IF IsStarted(s)
       THEN LET s1 == [s0 EXCEPT !.m_lap = GetMs(s0, t)]
            IN IF NonEmpty(event_name) /\ s1.m_activity # nullptr
               THEN Write(s1, StopLine(s1, event_name))
               ELSE s1
       ELSE s0

\* a slip: the running test is dropped and the lap is measured in any state
Stop_AlwaysMeasure(s, event_name, t) ==
    LET s1 == [s EXCEPT !.m_lap = GetMs(s, t)]
        s2 == IF IsStarted(s) /\ NonEmpty(event_name) /\ s1.m_activity # nullptr
              THEN Write(s1, StopLine(s1, event_name))
              ELSE s1
    IN TimerBaseChrono_Clear(s2)

\* a slip: BaseTimer::Clear() is left out
Stop_NoClear(s, event_name, t) ==
    IF IsStarted(s)
    THEN LET s1 == [s EXCEPT !.m_lap = GetMs(s, t)]
         IN IF NonEmpty(event_name) /\ s1.m_activity # nullptr
            THEN Write(s1, StopLine(s1, event_name))
            ELSE s1
    ELSE s

Stop(s, event_name, t) ==
    LET s2 == IF IsStarted(s)
              THEN LET s1 == [s EXCEPT !.m_lap = GetMs(s, t)]
                   IN IF NonEmpty(event_name) /\ s1.m_activity # nullptr
                      THEN Write(s1, StopLine(s1, event_name))
                      ELSE s1
              ELSE s
    IN TimerBaseChrono_Clear(s2)

\* a slip: the clock is read again for the value returned
StopRet_Reread(s, event_name, t) == GetMs(s, t)

StopRet(s, event_name, t) == Stop(s, event_name, t).m_lap

\* a slip: a restart writes the start line after the stop line
Start_AlsoAnnounces(s, event_name, t1, t2) ==
    LET s0 == IF IsStarted(s) THEN Stop(s, event_name, t1) ELSE s
        s1 == IF NonEmpty(event_name) /\ s0.m_activity # nullptr
              THEN Write(s0, StartLine(s0, event_name))
              ELSE s0
    IN TimerBaseChrono_Start(s1, t2)

\* a slip: a running stopwatch reports its lap and keeps its mark
Start_KeepsMark(s, event_name, t1, t2) ==
    IF IsStarted(s)
    THEN LET s1 == [s EXCEPT !.m_lap = GetMs(s, t1)]
         IN IF NonEmpty(event_name) /\ s1.m_activity # nullptr
            THEN Write(s1, StopLine(s1, event_name))
            ELSE s1
    ELSE TimerBaseChrono_Start(IF NonEmpty(event_name) /\ s.m_activity # nullptr
                               THEN Write(s, StartLine(s, event_name))
                               ELSE s, t2)

\* a slip: Start on a stopped stopwatch sets the lap to zero
Start_ClearsLap(s, event_name, t1, t2) ==
    LET s1 == IF IsStarted(s)
              THEN Stop(s, event_name, t1)
              ELSE LET s0 == [s EXCEPT !.m_lap = 0]
                   IN IF NonEmpty(event_name) /\ s0.m_activity # nullptr
                      THEN Write(s0, StartLine(s0, event_name))
                      ELSE s0
    IN TimerBaseChrono_Start(s1, t2)

\* a slip: a running stopwatch is restarted without the Stop
Start_NoStop(s, event_name, t1, t2) ==
    LET s1 == IF ~IsStarted(s) /\ NonEmpty(event_name) /\ s.m_activity # nullptr
              THEN Write(s, StartLine(s, event_name))
              ELSE s
    IN TimerBaseChrono_Start(s1, t2)

\* t1 is the reading taken by Stop (used only when running), t2 the reading
\* taken by BaseTimer::Start
Start(s, event_name, t1, t2) ==
    LET s1 == IF IsStarted(s)
              THEN Stop(s, event_name, t1)
              ELSE IF NonEmpty(event_name) /\ s.m_activity # nullptr
                   THEN Write(s, StartLine(s, event_name))
                   ELSE s
    IN TimerBaseChrono_Start(s1, t2)

StartRet(s, event_name, t1, t2) == Start(s, event_name, t1, t2).m_lap

\* the object after the member initializers; log is the (empty) record of
\* what this stopwatch wrote to its sink
Members(activity) == [m_activity |-> activity, m_lap |-> 0, m_start |-> TimePointMin, m_log |-> <<>>]

\* a slip: start_now is ignored
CtorBool_AlwaysStart(start_now, t) == Start(Members(<<"Stopwatch">>), <<"start">>, t, t)

\* basic_stopwatch(bool start_now)
CtorBool(start_now, t) ==
    LET s == Members(<<"Stopwatch">>)
    IN IF start_now THEN Start(s, <<"start">>, t, t) ELSE s

\* a slip: an empty label is kept instead of being replaced by nullptr
CtorActivity_NoNormalize(activity, start_now, t) ==
    LET s == Members(activity)
    IN IF start_now
       THEN IF s.m_activity # nullptr
            THEN Start(s, <<"start">>, t, t)
            ELSE Start(s, nullptr, t, t)
       ELSE s

\* basic_stopwatch(char const* activity, bool start_now) and
\* basic_stopwatch(std::ostream& log, char const* activity, bool start_now)
CtorActivity(activity, start_now, t) ==
    LET s == Members(IF NonEmpty(activity) THEN activity ELSE nullptr)
    IN IF start_now
       THEN IF s.m_activity # nullptr
            THEN Start(s, <<"start">>, t, t)
            ELSE Start(s, nullptr, t, t)
       ELSE s

\* a slip: the two branches on m_activity are exchanged
Dtor_Swapped(s, t) ==
    IF IsStarted(s)
    THEN IF s.m_activity # nullptr
         THEN Stop(s, nullptr, t)
         ELSE Stop(s, <<"stop">>, t)
    ELSE s

\* ~basic_stopwatch()
Dtor(s, t) ==
    IF IsStarted(s)
    THEN IF s.m_activity # nullptr
         THEN Stop(s, <<"stop">>, t)
         ELSE Stop(s, nullptr, t)
    ELSE s

\* ------------------------------------------------------------ the machine
\* the readings the clock can give next
Readings(from) == {t \in from..MaxNow : t <= from + MaxStep}

\* what is recorded about the latest call: the function, its arguments, the
\* value it returned, and the object and the sink as the call found them
Call(op, event_name, ret, t) ==
    [op |-> op, event |-> event_name, ret |-> ret,
     running |-> IsStarted(Self), lap |-> m_lap, lines |-> Len(m_log),
     mark |-> m_start, t |-> t, prev |-> call.op, prevret |-> call.ret]

\* what is recorded about the running interval: the reading at the Start that
\* began it and the values the Show calls made in it have returned
NoInterval == [mark |-> TimePointMin, shown |-> {}]

Began(t) == [mark |-> t, shown |-> {}]

Becomes(s) ==
    /\ m_activity' = s.m_activity
    /\ m_lap' = s.m_lap
    /\ m_start' = s.m_start
    /\ m_log' = s.m_log

Constructed(s, op, activity, start_now, t) ==
    /\ m_activity = s.m_activity
    /\ m_lap = s.m_lap
    /\ m_start = s.m_start
    /\ m_log = s.m_log
    /\ now = t
    /\ alive = TRUE
    /\ ncalls = 0
    /\ built = [ctor |-> op, activity |-> activity, start_now |-> start_now]
    /\ interval = IF start_now THEN Began(t) ELSE NoInterval
    /\ call = [op |-> op, event |-> nullptr, ret |-> 0,
               running |-> FALSE, lap |-> 0, lines |-> 0, mark |-> TimePointMin, t |-> t,
               prev |-> "none", prevret |-> 0]

Init ==
    \E start_now \in BOOLEAN, t \in Readings(0) :
        \/ Constructed(CtorBool(start_now, t), "ctor(bool)", <<"Stopwatch">>, start_now, t)
        \/ \E activity \in Activities :
              Constructed(CtorActivity(activity, start_now, t), "ctor(activity)", activity, start_now, t)

CanCall == alive /\ ncalls < MaxCalls

DoShow ==
    /\ CanCall
    /\ \E event_name \in Events, t \in Readings(now) :
          LET s == Show(Self, event_name, t)
          IN /\ Becomes(s)
             /\ now' = IF IsStarted(Self) THEN t ELSE now
             /\ call' = Call("Show", event_name, ShowRet(Self, event_name, t), t)
             /\ interval' = IF interval = NoInterval
                            THEN interval
                            ELSE [interval EXCEPT !.shown = @ \cup {ShowRet(Self, event_name, t)}]
    /\ ncalls' = ncalls + 1
    /\ UNCHANGED <<alive, built>>

DoStop ==
    /\ CanCall
    /\ \E event_name \in Events, t \in Readings(now) :
          LET s == Stop(Self, event_name, t)
          IN /\ Becomes(s)
             /\ now' = IF IsStarted(Self) THEN t ELSE now
             /\ call' = Call("Stop", event_name, StopRet(Self, event_name, t), t)
    /\ interval' = NoInterval
    /\ ncalls' = ncalls + 1
    /\ UNCHANGED <<alive, built>>

DoStart ==
    /\ CanCall
    /\ \E event_name \in Events, t1 \in Readings(now) :
          \E t2 \in Readings(IF IsStarted(Self) THEN t1 ELSE now) :
             LET s == Start(Self, event_name, t1, t2)
             IN /\ Becomes(s)
                /\ now' = t2
                /\ call' = Call("Start", event_name, StartRet(Self, event_name, t1, t2), t1)
                /\ interval' = Began(t2)
    /\ ncalls' = ncalls + 1
    /\ UNCHANGED <<alive, built>>

DoLapGet ==
    /\ CanCall
    /\ call' = Call("LapGet", nullptr, LapGet(Self), now)
    /\ ncalls' = ncalls + 1
    /\ UNCHANGED <<m_activity, m_lap, m_start, m_log, now, alive, built, interval>>

DoIsStarted ==
    /\ CanCall
    /\ call' = Call("IsStarted", nullptr, IsStarted(Self), now)
    /\ ncalls' = ncalls + 1
    /\ UNCHANGED <<m_activity, m_lap, m_start, m_log, now, alive, built, interval>>

Destroy ==
    /\ alive
    /\ \E t \in Readings(now) :
          LET s == Dtor(Self, t)
          IN /\ Becomes(s)
             /\ now' = IF IsStarted(Self) THEN t ELSE now
             /\ call' = Call("dtor", nullptr, 0, t)
    /\ interval' = NoInterval
    /\ alive' = FALSE
    /\ UNCHANGED <<ncalls, built>>

Next == DoShow \/ DoStop \/ DoStart \/ DoLapGet \/ DoIsStarted \/ Destroy

Spec == Init /\ [][Next]_vars

TypeOK ==
    /\ m_lap \in Nat
    /\ m_start \in {TimePointMin} \cup (0..MaxNow)
    /\ now \in 0..MaxNow
    /\ alive \in BOOLEAN

\* ------------------------------------------------------------- properties
Ctors == {"ctor(bool)", "ctor(activity)"}

Timed == {"Show", "Start", "Stop"}

\* the stopwatch was constructed with an empty or null activity label
EmptyLabel == built.ctor = "ctor(activity)" /\ ~NonEmpty(built.activity)

\* the elapsed ticks between a mark and a reading of the clock
Elapsed(mark, t) == (t - mark) \div TicksPerUnit

\* the object after the call op(event_name) that reads the clock at t1 (and,
\* for Start, sets the mark at t2)
After(op, s, event_name, t1, t2) ==
    CASE op = "Show" -> Show(s, event_name, t1)
      [] op = "Stop" -> Stop(s, event_name, t1)
      [] op = "Start" -> Start(s, event_name, t1, t2)

\* C1: a stopwatch constructed with an empty or null activity label never
\* writes a line to the sink: not in the constructor, not in any Show, Start
\* or Stop whatever the event name, not in the destructor.
C1_EmptyLabelWritesNothing == EmptyLabel => m_log = <<>>

C1_Witness ==
    /\ EmptyLabel /\ built.activity = <<"">> /\ built.start_now
    /\ call.op = "dtor" /\ call.running /\ call.prev = "Show" /\ ncalls >= 2
    /\ m_log = <<>>

\* C2: a Show, Start or Stop whose event name is empty or null writes no
\* line, in either state and for any label, and changes the lap and the mark
\* as the same call with a non-empty event name does.
C2_EmptyEventWritesNothing ==
    [][(call'.op \in Timed /\ ~NonEmpty(call'.event)) =>
          /\ m_log' = m_log
          /\ m_lap' = After(call'.op, Self, <<"lap">>, call'.t, now').m_lap
          /\ m_start' = After(call'.op, Self, <<"lap">>, call'.t, now').m_start]_vars

\* C3 as stated: Start(event) on a running stopwatch leaves the object and
\* the sink exactly as Stop(event) followed by Start() (event name "start")
\* at the same clock readings does, and returns what they return.
C3_StartIsStopThenDefaultStart ==
    [][(call'.op = "Start" /\ IsStarted(Self)) =>
          /\ Self' = Start(Stop(Self, call'.event, call'.t), <<"start">>, now', now')
          /\ call'.ret = StopRet(Self, call'.event, call'.t)
          /\ call'.ret = StartRet(Stop(Self, call'.event, call'.t), <<"start">>, now', now')]_vars

\* C3 amended: Start(event) on a running stopwatch leaves the object and the
\* sink exactly as Stop(event) followed by a Start with an empty or null
\* event name at the same clock readings does, and returns what they return.
C3_StartIsStopThenSilentStart ==
    [][(call'.op = "Start" /\ IsStarted(Self)) =>
          \A e0 \in {nullptr, <<"">>} :
             /\ Self' = Start(Stop(Self, call'.event, call'.t), e0, now', now')
             /\ call'.ret = StopRet(Self, call'.event, call'.t)
             /\ call'.ret = StartRet(Stop(Self, call'.event, call'.t), e0, now', now')]_vars

C3_Witness ==
    /\ call.op = "Start" /\ call.running /\ NonEmpty(call.event)
    /\ m_activity # nullptr /\ IsStarted(Self)
    /\ Len(m_log) = call.lines + 1 /\ call.ret > 0 /\ m_start > call.t

\* C4: the stopwatch is running after every Start and after construction
\* with start_now true, stopped after every Stop and after construction with
\* start_now false; Show, LapGet and IsStarted leave the running state as it
\* was.
C4_RunningState ==
    /\ call.op = "Start" => IsStarted(Self)
    /\ call.op = "Stop" => ~IsStarted(Self)
    /\ call.op \in Ctors => (IsStarted(Self) <=> built.start_now)
    /\ call.op \in {"Show", "LapGet", "IsStarted"} => (IsStarted(Self) <=> call.running)
    /\ call.op = "IsStarted" => (call.ret <=> call.running)

C4_Witness == call.op = "Stop" /\ call.running /\ call.prev = "Start" /\ ~IsStarted(Self)

\* C5: the value a Show, Start or Stop returns is the lap LapGet() gives
\* right after the call.
C5_ReturnIsLap ==
    [][/\ call'.op \in Timed => call'.ret = LapGet(Self)'
       /\ (call'.op = "LapGet" /\ call.op \in Timed) => call'.ret = call.ret]_vars

C5_Witness ==
    /\ call.op = "LapGet" /\ call.prev = "Stop" /\ call.ret = call.prevret /\ call.ret > 0

C7_StopWhenStoppedSaysNotStarted ==
    [][(call'.op = "Stop" /\ ~IsStarted(Self) /\ m_activity # nullptr) =>
          m_log' = Append(m_log, m_activity[1] \o ": not started")]_vars

\* C8: the destructor of a running stopwatch with a non-empty label writes
\* exactly one line, "<activity>: stop <N>mS"; the destructor of a stopped
\* stopwatch writes nothing.
C8_Destruction ==
    [][call'.op = "dtor" =>
          /\ (IsStarted(Self) /\ ~EmptyLabel) =>
                m_log' = Append(m_log, built.activity[1] \o ": stop "
                                       \o ToString(Elapsed(m_start, call'.t)) \o "mS")
          /\ ~IsStarted(Self) => m_log' = m_log]_vars

C8_Witness ==
    /\ call.op = "dtor" /\ call.running /\ ~EmptyLabel
    /\ Len(m_log) = call.lines + 1 /\ m_lap > 0 /\ ncalls >= 1

\* C9: construction with start_now true and a non-empty label writes exactly
\* one line "<activity>: start" and leaves the stopwatch running with lap 0;
\* construction with start_now false writes nothing and leaves it stopped
\* with lap 0.
C9_Construction ==
    call.op \in Ctors =>
        /\ (built.start_now /\ ~EmptyLabel) =>
              /\ m_log = <<built.activity[1] \o ": start">>
              /\ IsStarted(Self)
              /\ LapGet(Self) = 0
        /\ ~built.start_now =>
              /\ m_log = <<>>
              /\ ~IsStarted(Self)
              /\ LapGet(Self) = 0

C9_Witness ==
    /\ call.op = "ctor(bool)" /\ built.start_now
    /\ m_log = <<"Stopwatch: start">> /\ IsStarted(Self)

\* C10: with a non-empty label and event name, Show on a running stopwatch
\* writes exactly "<activity>: <event> at <N>mS" and Stop or Start on a
\* running stopwatch writes exactly "<activity>: <event> <N>mS", N being the
\* elapsed ticks from the mark to the call, the new lap, and the value
\* returned.
C10_ReportLine ==
    [][(call'.op \in Timed /\ IsStarted(Self) /\ ~EmptyLabel /\ NonEmpty(call'.event)) =>
          LET N == Elapsed(m_start, call'.t)
              head == built.activity[1] \o ": " \o call'.event[1]
          IN /\ m_log' = Append(m_log, IF call'.op = "Show"
                                       THEN head \o " at " \o ToString(N) \o "mS"
                                       ELSE head \o " " \o ToString(N) \o "mS")
             /\ m_lap' = N
             /\ call'.ret = N]_vars

C10_Witness ==
    /\ call.op = "Show" /\ call.running /\ ~EmptyLabel /\ NonEmpty(call.event)
    /\ call.ret > 0 /\ (call.t - call.mark) % TicksPerUnit # 0
    /\ Len(m_log) = call.lines + 1

C12_StartClearsLap ==
    [][(call'.op = "Start" /\ ~IsStarted(Self)) => LapGet(Self)' = 0]_vars

\* C13: within one running interval the measured values never decrease: a
\* Show returns at least what every earlier Show of the interval returned,
\* and so does the Stop that ends the interval.
C13_MeasuresNeverDecrease ==
    [][(call'.op \in {"Show", "Stop"} /\ interval # NoInterval) =>
          \A v \in interval.shown : v <= call'.ret]_vars

C13_Witness ==
    /\ call.op = "Stop" /\ call.running /\ call.prev = "Show"
    /\ call.prevret > 0 /\ call.ret >= call.prevret

\* C14 as stated: for a stopwatch constructed with an empty label and
\* start_now true, the lap after a Stop that ends a running interval is the
\* elapsed duration of that interval, and it is not zero.
C14_LapAfterStopIsNonzero ==
    (call.op = "Stop" /\ call.running /\ EmptyLabel /\ built.start_now) =>
        /\ LapGet(Self) = Elapsed(call.mark, call.t)
        /\ LapGet(Self) # 0

\* C14 amended: that lap is the elapsed duration of the interval in whole
\* ticks, and it is not zero exactly when at least one whole tick has passed
\* between the mark and the Stop.
C14_LapAfterStopIsElapsed ==
    (call.op = "Stop" /\ call.running /\ EmptyLabel /\ built.start_now) =>
        /\ LapGet(Self) = Elapsed(call.mark, call.t)
        /\ LapGet(Self) # 0 <=> call.t - call.mark >= TicksPerUnit

C14_Witness ==
    /\ call.op = "Stop" /\ call.running /\ EmptyLabel /\ built.start_now
    /\ call.prev = "Show" /\ LapGet(Self) > 0 /\ m_log = <<>>

\* C15: the mark is either absent or a reading not later than the current
\* reading of the clock, so the elapsed ticks computed from it are never
\* negative; it is absent after construction without a start, it is set only
\* by Start (to the reading Start takes) and cleared only by Stop (the
\* destructor's Stop included), which always leaves it absent.
C15_MarkInvariant ==
    [][/\ m_start = TimePointMin \/ m_start <= now
       /\ m_start' = TimePointMin \/ m_start' <= now'
       /\ \A t \in Readings(now) : GetMs(Self, t) >= 0
       /\ call.op \in Ctors => (m_start = IF built.start_now THEN now ELSE TimePointMin)
       /\ m_start' # m_start =>
             IF m_start' = TimePointMin
             THEN call'.op \in {"Stop", "dtor"}
             ELSE call'.op = "Start" /\ m_start' = now'
       /\ call'.op \in {"Stop", "dtor"} => m_start' = TimePointMin]_vars

C15_Witness ==
    /\ call.op = "Stop" /\ call.running /\ call.prev = "Start"
    /\ call.mark > 0 /\ call.t > call.mark /\ m_start = TimePointMin

C17_RestartBeginsFreshInterval ==
    [][/\ (call'.op = "Start" /\ IsStarted(Self)) =>
             /\ call'.ret = Elapsed(m_start, call'.t)
             /\ m_start' = now'
             /\ interval'.mark = m_start'
       /\ (call'.op \in {"Show", "Stop"} /\ interval # NoInterval) =>
             call'.ret = Elapsed(interval.mark, call'.t)]_vars

C17_Witness ==
    /\ call.op = "Show" /\ call.running /\ call.prev = "Start"
    /\ call.prevret > 0 /\ call.ret < call.prevret /\ call.mark > 0

\* C18: reading the elapsed time does not change the mark: Show on a running
\* stopwatch leaves the mark as it was, so a Show or Stop at reading t returns
\* the ticks from the mark of the latest Start to t, however many Show calls
\* were made in between; GetMs() on an unmarked clock returns 0.
C18_ReadIsNonDestructive ==
    [][/\ (call'.op = "Show" /\ IsStarted(Self)) => m_start' = m_start
       /\ (call'.op \in {"Show", "Stop"} /\ interval # NoInterval) =>
             call'.ret = (call'.t - interval.mark) \div TicksPerUnit
       /\ ~IsStarted(Self) => \A t \in Readings(now) : GetMs(Self, t) = 0]_vars

C18_Witness ==
    /\ call.op = "Show" /\ call.running /\ call.prev = "Show"
    /\ Cardinality(interval.shown) >= 2 /\ m_start = call.mark /\ call.ret > 0

\* a second stopwatch with the same lap and mark as this one and its own
\* sink, with a label where this one has none and none where this one has one
Twin == [Self EXCEPT !.m_activity = IF m_activity = nullptr THEN <<"Work">> ELSE nullptr,
                     !.m_log = <<>>]

\* the value the call op(event_name) returns
Returned(op, s, event_name, t1, t2) ==
    CASE op = "Show" -> ShowRet(s, event_name, t1)
      [] op = "Stop" -> StopRet(s, event_name, t1)
      [] op = "Start" -> StartRet(s, event_name, t1, t2)

\* C19: suppressing output never changes the measurement: a second stopwatch
\* that differs only in its label (empty where this one's is not, and the
\* other way round) and in the event names it is given, driven
\* by the same calls at the same clock readings, has the same running state
\* and lap after construction and after every call, and every call returns
\* the same value on both.  (Stated step by step: the two agree after
\* construction, and a call made on both when they agree leaves them agreeing.)
C19_SuppressionKeepsMeasurement ==
    [][/\ call.op \in Ctors =>
             \A a \in Activities :
                LET c == CtorActivity(a, built.start_now, call.t)
                IN c.m_lap = m_lap /\ c.m_start = m_start
       /\ call'.op \in Timed =>
             \A e \in Events :
                /\ \A s \in {After(call'.op, Twin, e, call'.t, now')} :
                      /\ s.m_lap = m_lap'
                      /\ s.m_start = m_start'
                      /\ IsStarted(s) <=> IsStarted(Self)'
                /\ Returned(call'.op, Twin, e, call'.t, now') = call'.ret]_vars

C19_Witness ==
    /\ call.op = "Show" /\ call.running /\ EmptyLabel /\ ~NonEmpty(call.event)
    /\ call.ret > 0 /\ m_lap = call.ret /\ call.lap # call.ret /\ m_log = <<>>

\* C20: every operation writes at most one line to the sink: each
\* constructor, Show, Start, Stop and the destructor append at most one line
\* to what was written before; Start on a running stopwatch writes the stop
\* line and no start line; LapGet and IsStarted write nothing.
C20_AtMostOneLine ==
    [][/\ call.op \in Ctors => Len(m_log) <= 1
       /\ call'.op \in Timed \cup {"dtor"} =>
             /\ Len(m_log') <= Len(m_log) + 1
             /\ SubSeq(m_log', 1, Len(m_log)) = m_log
       /\ (call'.op = "Start" /\ IsStarted(Self)) =>
             m_log' = IF ~EmptyLabel /\ NonEmpty(call'.event)
                      THEN Append(m_log, built.activity[1] \o ": " \o call'.event[1] \o " "
                                         \o ToString(Elapsed(m_start, call'.t)) \o "mS")
                      ELSE m_log
       /\ call'.op \in {"LapGet", "IsStarted"} => m_log' = m_log]_vars

C20_Witness ==
    /\ call.op = "Start" /\ call.running /\ ~EmptyLabel /\ call.event = <<"start">>
    /\ Len(m_log) = call.lines + 1 /\ IsStarted(Self) /\ call.lines >= 1
====
